---------------------------- MODULE Spec2Model ----------------------------
(***************************************************************************)
(* Model of capytaine/problems.py: the potential flow problems of the BEM  *)
(* solver (LinearPotentialFlowProblem, DiffractionProblem,                 *)
(* RadiationProblem) and problems_from_dataset.                            *)
(*                                                                         *)
(* Numbers.  Positions and depths are extended integers <<s, v>>:          *)
(* <<0, v>> is the finite value v, <<1, 0>> is +infinity, <<-1, 0>> is     *)
(* -infinity and <<2, 0>> is the NaN that inf - inf produces.  omega and   *)
(* rho are integers; g is held in hundredths (9.81 is 981) so that the     *)
(* default of the source is exact.                                         *)
(*                                                                         *)
(* Objects.  heap is the sequence of the live problem objects, a problem   *)
(* is named by its index in it.  log is what the last operation handed to  *)
(* LOG, outcome is what the last operation returned or raised.             *)
(***************************************************************************)
EXTENDS Integers, Sequences, FiniteSets, TLC

VARIABLES heap, log, outcome

vars == <<heap, log, outcome>>

(***************************************************************************)
(* Extended integers                                                       *)
(***************************************************************************)
Fin(n) == <<0, n>>

Inf == <<1, 0>>

NegInf == <<-1, 0>>

NaN == <<2, 0>>

IsNaN(a) == a[1] = 2

ELT(a, b) ==
    /\ ~IsNaN(a)
    /\ ~IsNaN(b)
    /\ \/ a[1] < b[1]
       \/ a[1] = 0 /\ b[1] = 0 /\ a[2] < b[2]

EEq(a, b) == ~IsNaN(a) /\ ~IsNaN(b) /\ a = b

ENeg(a) == IF IsNaN(a) THEN NaN ELSE <<-a[1], -a[2]>>

ESub(a, b) ==
    IF IsNaN(a) \/ IsNaN(b) THEN NaN
    ELSE IF a[1] = 0 /\ b[1] = 0 THEN Fin(a[2] - b[2])
    ELSE IF a[1] = b[1] THEN NaN
    ELSE IF a[1] # 0 THEN a
    ELSE ENeg(b)

Range(s) == {s[i] : i \in DOMAIN s}

(***************************************************************************)
(* The collaborators: floating bodies.  A body is an object (id), has a    *)
(* name, a mesh (the vertical coordinate of each face center is all the    *)
(* problems read) and dofs, a dict whose keys are kept in insertion order. *)
(* id 0 is None.                                                           *)
(***************************************************************************)
None == "None"

NoBody == [id |-> 0, name |-> None, mesh |-> [faces_centers |-> <<>>], dofs |-> <<>>]

barge == [id |-> 1, name |-> "barge", mesh |-> [faces_centers |-> <<-1, -7>>],
          dofs |-> <<"Surge", "Heave">>]

buoy == [id |-> 2, name |-> "buoy", mesh |-> [faces_centers |-> <<-1, 1, -2>>],
         dofs |-> <<"Heave">>]

wreck == [id |-> 3, name |-> "barge", mesh |-> [faces_centers |-> <<-3>>],
          dofs |-> <<>>]

pile == [id |-> 4, name |-> "pile", mesh |-> [faces_centers |-> <<-1>>],
         dofs |-> <<>>]

\* The alphabetical order of the names in use (str.__lt__).
NameOrder == <<"barge", "buoy", "ghost", "pile">>

NameRank(n) == CHOOSE i \in DOMAIN NameOrder : NameOrder[i] = n

\* FloatingBody.__eq__ is the identity of the object.
BodyEq(a, b) == a.id = b.id

\* FloatingBody.__lt__ orders the bodies by name.
BodyLT(a, b) == NameRank(a.name) < NameRank(b.name)

(***************************************************************************)
(* Exceptions and log records                                              *)
(***************************************************************************)
NoExc == [type |-> None, msg |-> "", values |-> <<>>]

Raise(type, msg, values) == [type |-> type, msg |-> msg, values |-> values]

Raised(e) == e.type # None

(***************************************************************************)
(* class LinearPotentialFlowProblem                                        *)
(***************************************************************************)
default_parameters ==
    [rho |-> 1000, g |-> 981, free_surface |-> Fin(0), sea_bottom |-> NegInf, omega |-> 1]

attribs_validated_last == <<"free_surface", "sea_bottom", "body", "omega", "g", "rho">>

\* The attributes in the order of their declaration: the order of the
\* fields of astuple(self) and the order in which attrs runs the validators.
attribs == <<"body", "free_surface", "sea_bottom", "omega", "g", "rho">>

_check_free_surface_no_bottom_rule(self) ==
    IF ~(EEq(self.free_surface, Fin(0)) \/ EEq(self.free_surface, Inf))
    THEN Raise("NotImplementedError",
               "Only z=0 and z=inf are accepted values for the free surface position at the moment.",
               <<>>)
    ELSE NoExc

_check_free_surface(self) ==
    IF ~(EEq(self.free_surface, Fin(0)) \/ EEq(self.free_surface, Inf))
    THEN Raise("NotImplementedError",
               "Only z=0 and z=inf are accepted values for the free surface position at the moment.",
               <<>>)
    ELSE IF EEq(self.free_surface, Inf) /\ ~EEq(self.sea_bottom, NegInf)
    THEN Raise("NotImplementedError",
               "The case without free surface but with a sea bottom has not been implemented yet.",
               <<>>)
    ELSE NoExc

_check_depth(self) ==
    IF ELT(self.free_surface, self.sea_bottom)
    THEN Raise("ValueError", "Sea bottom is above the free surface.", <<>>)
    ELSE NoExc

\* The records _check_body_position hands to LOG.warning.
_check_body_position(self) ==
    IF self.body.id # 0
       /\ \/ \E i \in DOMAIN self.body.mesh.faces_centers :
                ELT(self.free_surface, Fin(self.body.mesh.faces_centers[i]))
          \/ \E i \in DOMAIN self.body.mesh.faces_centers :
                ELT(Fin(self.body.mesh.faces_centers[i]), self.sea_bottom)
    THEN << [level |-> "warning",
             msg |-> "The mesh of the body is not inside the domain.",
             fields |-> [body |-> self.body.name]] >>
    ELSE <<>>

\* One validator: what it logs and what it raises.
Validator(name, self) ==
    CASE name = "body" -> [log |-> _check_body_position(self), exc |-> NoExc]
      [] name = "free_surface" -> [log |-> <<>>, exc |-> _check_free_surface(self)]
      [] name = "sea_bottom" -> [log |-> <<>>, exc |-> _check_depth(self)]
      [] OTHER -> [log |-> <<>>, exc |-> NoExc]

\* The validators run after every attribute is set, one per attribute in
\* the order of declaration, until one raises.
RECURSIVE RunValidators(_, _, _)
RunValidators(self, i, sofar) ==
    IF i > Len(attribs) THEN [log |-> sofar, exc |-> NoExc]
    ELSE LET r == Validator(attribs[i], self)
         IN  IF Raised(r.exc) THEN [log |-> sofar \o r.log, exc |-> r.exc]
             ELSE RunValidators(self, i + 1, sofar \o r.log)

depth(self) == ESub(self.free_surface, self.sea_bottom)

DeepWaterAtThreshold(self, d) == self.omega * self.omega * d * 100 >= 20 * self.g

\* omega**2*depth/g > 20 for a finite depth d (g in hundredths, g > 0).
DeepWater(self, d) == self.omega * self.omega * d * 100 > 20 * self.g

\* The wavenumber: the closed form omega**2/g, or the root scipy's newton
\* finds from x0 for x*tanh(x) = rhs, divided by the depth.  Rationals are
\* [num, den] records.
wavenumber(self) ==
    IF EEq(depth(self), Inf) \/ (depth(self)[1] = 0 /\ DeepWater(self, depth(self)[2]))
    THEN [form |-> "omega**2/g",
          value |-> [num |-> self.omega * self.omega * 100, den |-> self.g]]
    ELSE [form |-> "newton",
          x0 |-> 1,
          rhs |-> [num |-> self.omega * self.omega * depth(self)[2] * 100, den |-> self.g],
          divided_by |-> depth(self)]

wavelength(self) == [two_pi_over |-> wavenumber(self)]

period(self) == [two_pi_over |-> self.omega]

dimensionless_omega(self) ==
    IF ~EEq(depth(self), Inf)
    THEN [exc |-> NoExc,
          value |-> [num |-> self.omega * self.omega * depth(self)[2] * 100, den |-> self.g]]
    ELSE [exc |-> Raise("AttributeError",
                        "Dimensionless omega is defined only for finite depth problems.", <<>>),
          value |-> [num |-> 0, den |-> 1]]

dimensionless_wavenumber(self) ==
    IF ~EEq(depth(self), Inf)
    THEN [exc |-> NoExc, value |-> [wavenumber |-> wavenumber(self), times |-> depth(self)]]
    ELSE [exc |-> Raise("AttributeError",
                        "Dimensionless wavenumber is defined only for finite depth problems.", <<>>),
          value |-> [wavenumber |-> wavenumber(self), times |-> depth(self)]]


ProblemClasses == {"LinearPotentialFlowProblem", "DiffractionProblem", "RadiationProblem"}

\* isinstance(other, LinearPotentialFlowProblem); every value carries its class.
IsProblem(other) == other.cls \in ProblemClasses

\* astuple(self)[:6]: the six attributes of the base class, in declaration order.
astuple6(self) == [i \in 1..6 |-> self[attribs[i]]]

\* x == y and x < y on one field of the tuples.
FieldEq(i, x, y) ==
    CASE attribs[i] = "body" -> BodyEq(x, y)
      [] attribs[i] \in {"free_surface", "sea_bottom"} -> EEq(x, y)
      [] OTHER -> x = y

FieldLT(i, x, y) ==
    CASE attribs[i] = "body" -> BodyLT(x, y)
      [] attribs[i] \in {"free_surface", "sea_bottom"} -> ELT(x, y)
      [] OTHER -> x < y

\* Python's comparison of two tuples of the same length: the first index
\* at which the items are not ==, or the length plus one.
FirstDiff(s, t) ==
    IF \A i \in DOMAIN s : FieldEq(i, s[i], t[i]) THEN Len(s) + 1
    ELSE CHOOSE i \in DOMAIN s :
            /\ ~FieldEq(i, s[i], t[i])
            /\ \A j \in 1..(i - 1) : FieldEq(j, s[j], t[j])

TupleEq(s, t) == FirstDiff(s, t) > Len(s)

TupleLT(s, t) ==
    LET i == FirstDiff(s, t)
    IN  i <= Len(s) /\ FieldLT(i, s[i], t[i])

NotImplemented == [implemented |-> FALSE, value |-> FALSE]

Returns(b) == [implemented |-> TRUE, value |-> b]

__eq__first_four(self, other) ==
    IF IsProblem(other)
    THEN Returns(TupleEq(SubSeq(astuple6(self), 1, 4), SubSeq(astuple6(other), 1, 4)))
    ELSE NotImplemented

__eq__(self, other) ==
    IF IsProblem(other) THEN Returns(TupleEq(astuple6(self), astuple6(other)))
    ELSE NotImplemented

__lt__omega_first(self, other) ==
    IF IsProblem(other)
    THEN Returns(\/ self.omega < other.omega
                 \/ self.omega = other.omega /\ TupleLT(astuple6(self), astuple6(other)))
    ELSE NotImplemented

__lt__(self, other) ==
    IF IsProblem(other) THEN Returns(TupleLT(astuple6(self), astuple6(other)))
    ELSE NotImplemented

\* The parameters __str__ joins, as <<name, value>> pairs.
StrDefaults(self) ==
    (IF ~EEq(self.free_surface, default_parameters.free_surface)
     THEN << <<"free_surface", self.free_surface>> >> ELSE <<>>)
    \o (IF self.g # default_parameters.g THEN << <<"g", self.g>> >> ELSE <<>>)
    \o (IF self.rho # default_parameters.rho THEN << <<"rho", self.rho>> >> ELSE <<>>)

_str_other_attributes(self) ==
    CASE self.cls = "DiffractionProblem" -> << <<"angle", self.angle>> >>
      [] self.cls = "RadiationProblem" -> << <<"radiating_dof", self.radiating_dof>> >>
      [] OTHER -> <<>>

__str__(self) ==
    [name |-> self.cls,
     parameters |->
        << <<"body", self.body.name>>, <<"omega", self.omega>>, <<"depth", depth(self)>> >>
        \o _str_other_attributes(self)
        \o StrDefaults(self)]

(***************************************************************************)
(* Construction.  The generated __init__ sets every attribute, runs the    *)
(* validators, then calls __attrs_post_init__.                             *)
(***************************************************************************)
Unset == [kind |-> "unset", array |-> <<>>]

NoneArray == [kind |-> "None", array |-> <<>>]

\* -(Airy_wave_velocity(faces_centers, self, convention) * faces_normals).sum(axis=1)
\* and np.sum(dof * faces_normals, axis=1): one entry per face of the mesh.
PerFace(body, field) ==
    [kind |-> "array",
     array |-> [i \in 1..Len(body.mesh.faces_centers)
                |-> [face |-> i, normal_component_of |-> field]]]

Diffraction_post_init(self) ==
    IF self.body.id # 0
    THEN [self |-> [self EXCEPT !.boundary_condition =
                        PerFace(self.body, "-Airy_wave_velocity")],
          log |-> <<>>, exc |-> NoExc]
    ELSE [self |-> self, log |-> <<>>, exc |-> NoExc]

UnknownDofLogFirstOnly(self) ==
    << [level |-> "error",
        msg |-> "the radiating degree of freedom is not one of the degrees of freedom of the body.",
        fields |-> [problem |-> __str__(self),
                    radiating_dof |-> self.radiating_dof,
                    dofs |-> SubSeq(self.body.dofs, 1, 1)]] >>

\* The record handed to LOG.error before the ValueError of an unknown dof.
UnknownDofLog(self) ==
    << [level |-> "error",
        msg |-> "the radiating degree of freedom is not one of the degrees of freedom of the body.",
        fields |-> [problem |-> __str__(self),
                    radiating_dof |-> self.radiating_dof,
                    dofs |-> self.body.dofs]] >>

FirstDofLast(body) == body.dofs[Len(body.dofs)]

\* next(iter(self.body.dofs)): the first key of the dict.
FirstDof(body) == body.dofs[1]

Radiation_post_init(self) ==
    IF self.body.id = 0
    THEN [self |-> [self EXCEPT !.boundary_condition = NoneArray],
          log |-> <<>>, exc |-> NoExc]
    ELSE IF Len(self.body.dofs) = 0
    THEN [self |-> self, log |-> <<>>,
          exc |-> Raise("ValueError", "Body does not have any degrees of freedom.",
                        <<self.body.name>>)]
    ELSE LET s1 == IF self.radiating_dof = None
                   THEN [self EXCEPT !.radiating_dof = FirstDof(self.body)]
                   ELSE self
         IN  IF s1.radiating_dof \notin Range(s1.body.dofs)
             THEN [self |-> s1, log |-> UnknownDofLog(s1),
                   exc |-> Raise("ValueError", "Unrecognized degree of freedom name.", <<>>)]
             ELSE [self |-> [s1 EXCEPT !.boundary_condition =
                                 PerFace(s1.body, s1.radiating_dof)],
                   log |-> <<>>, exc |-> NoExc]

\* The attributes as __init__ sets them.
Attributes(cls, a) ==
    [cls |-> cls, body |-> a.body, free_surface |-> a.free_surface,
     sea_bottom |-> a.sea_bottom, omega |-> a.omega, g |-> a.g, rho |-> a.rho,
     boundary_condition |-> Unset]
    @@ (CASE cls = "DiffractionProblem" -> [angle |-> a.angle, convention |-> a.convention]
          [] cls = "RadiationProblem" -> [radiating_dof |-> a.radiating_dof]
          [] OTHER -> [base |-> TRUE])

\* cls(**a): the object, what was logged and what was raised.
Construct(cls, a) ==
    LET self == Attributes(cls, a)
        v == RunValidators(self, 1, <<>>)
    IN  IF Raised(v.exc) THEN [self |-> self, log |-> v.log, exc |-> v.exc]
        ELSE LET r == CASE cls = "DiffractionProblem" -> Diffraction_post_init(self)
                        [] cls = "RadiationProblem" -> Radiation_post_init(self)
                        [] OTHER -> [self |-> self, log |-> <<>>, exc |-> NoExc]
             IN  [self |-> r.self, log |-> v.log \o r.log, exc |-> r.exc]


(***************************************************************************)
(* The operations on problem objects                                       *)
(***************************************************************************)
Result(op, args, exc, value) == [op |-> op, args |-> args, exc |-> exc, value |-> value]

\* A constructor call.  The object exists from then on only when nothing
\* was raised; cap is the number of objects the caller keeps alive.
New(cls, a, cap) ==
    /\ ~Raised(outcome.exc)
    /\ Len(heap) < cap
    /\ \E r \in {Construct(cls, a)} :
           /\ heap' = IF Raised(r.exc) THEN heap ELSE Append(heap, r.self)
           /\ log' = r.log
           /\ outcome' = Result("__init__", [cls |-> cls, a |-> a], r.exc,
                                IF Raised(r.exc) THEN 0 ELSE Len(heap) + 1)

NewLinearPotentialFlowProblem(a, cap) == New("LinearPotentialFlowProblem", a, cap)

NewDiffractionProblem(a, cap) == New("DiffractionProblem", a, cap)

NewRadiationProblem(a, cap) == New("RadiationProblem", a, cap)

\* The caller handles the exception the last operation raised.
Except ==
    /\ Raised(outcome.exc)
    /\ outcome' = Result("except", <<>>, NoExc, 0)
    /\ log' = <<>>
    /\ UNCHANGED heap

\* The caller drops its objects and the last result (scope exit).
Discard ==
    /\ ~Raised(outcome.exc)
    /\ outcome.op \notin {"start", "del", "except"}
    /\ heap' = <<>>
    /\ log' = <<>>
    /\ outcome' = Result("del", <<>>, NoExc, 0)

GetDepth(i) ==
    /\ ~Raised(outcome.exc)
    /\ outcome' = Result("depth", <<i>>, NoExc, depth(heap[i]))
    /\ log' = <<>>
    /\ UNCHANGED heap

GetWavenumber(i) ==
    /\ ~Raised(outcome.exc)
    /\ outcome' = Result("wavenumber", <<i>>, NoExc, wavenumber(heap[i]))
    /\ log' = <<>>
    /\ UNCHANGED heap

GetWavelength(i) ==
    /\ ~Raised(outcome.exc)
    /\ outcome' = Result("wavelength", <<i>>, NoExc, wavelength(heap[i]))
    /\ log' = <<>>
    /\ UNCHANGED heap

GetPeriod(i) ==
    /\ ~Raised(outcome.exc)
    /\ outcome' = Result("period", <<i>>, NoExc, period(heap[i]))
    /\ log' = <<>>
    /\ UNCHANGED heap

GetDimensionlessOmega(i) ==
    /\ ~Raised(outcome.exc)
    /\ outcome' = Result("dimensionless_omega", <<i>>,
                         dimensionless_omega(heap[i]).exc, dimensionless_omega(heap[i]).value)
    /\ log' = <<>>
    /\ UNCHANGED heap

GetDimensionlessWavenumber(i) ==
    /\ ~Raised(outcome.exc)
    /\ outcome' = Result("dimensionless_wavenumber", <<i>>,
                         dimensionless_wavenumber(heap[i]).exc,
                         dimensionless_wavenumber(heap[i]).value)
    /\ log' = <<>>
    /\ UNCHANGED heap

Str(i) ==
    /\ ~Raised(outcome.exc)
    /\ outcome' = Result("__str__", <<i>>, NoExc, __str__(heap[i]))
    /\ log' = <<>>
    /\ UNCHANGED heap

Eq(i, j) ==
    /\ ~Raised(outcome.exc)
    /\ outcome' = Result("__eq__", <<i, j>>, NoExc, __eq__(heap[i], heap[j]))
    /\ log' = <<>>
    /\ UNCHANGED heap

\* self == other for a value that is no problem.
EqOther(i, other) ==
    /\ ~Raised(outcome.exc)
    /\ outcome' = Result("__eq__other", <<i>>, NoExc, __eq__(heap[i], other))
    /\ log' = <<>>
    /\ UNCHANGED heap

Lt(i, j) ==
    /\ ~Raised(outcome.exc)
    /\ outcome' = Result("__lt__", <<i, j>>, NoExc, __lt__(heap[i], heap[j]))
    /\ log' = <<>>
    /\ UNCHANGED heap

(***************************************************************************)
(* problems_from_dataset(dataset, bodies).  A dataset is a record of its   *)
(* five coordinates, each [present, data]: 'omega' in dataset is           *)
(* dataset.omega.present and dataset['omega'].data is dataset.omega.data.  *)
(***************************************************************************)
\* itertools.product of four sequences: the rightmost index advances first.
Product(A, B, C, D) ==
    [k \in 1..(Len(A) * Len(B) * Len(C) * Len(D)) |->
        << A[((k - 1) \div (Len(B) * Len(C) * Len(D))) + 1],
           B[(((k - 1) \div (Len(C) * Len(D))) % Len(B)) + 1],
           C[(((k - 1) \div Len(D)) % Len(C)) + 1],
           D[((k - 1) % Len(D)) + 1] >>]

\* body_range: the bodies kept, in the order of bodies (a dict keyed by name).
RECURSIVE SelectBodies(_, _)
SelectBodies(bodies, names) ==
    IF bodies = <<>> THEN <<>>
    ELSE (IF Head(bodies).name \in names THEN <<Head(bodies)>> ELSE <<>>)
         \o SelectBodies(Tail(bodies), names)

body_range(dataset, bodies) ==
    IF dataset.body_name.present
    THEN SelectBodies(bodies, Range(dataset.body_name.data))
    ELSE bodies

DiffractionCall(c) ==
    [body |-> c[4], free_surface |-> default_parameters.free_surface,
     sea_bottom |-> ENeg(c[3]), omega |-> c[1], g |-> default_parameters.g,
     rho |-> default_parameters.rho, angle |-> c[2], convention |-> "Nemoh"]

RadiationCall(c) ==
    [body |-> c[4], free_surface |-> default_parameters.free_surface,
     sea_bottom |-> ENeg(c[3]), omega |-> c[1], g |-> default_parameters.g,
     rho |-> default_parameters.rho, radiating_dof |-> c[2]]

CallOf(cls, c) == IF cls = "DiffractionProblem" THEN DiffractionCall(c) ELSE RadiationCall(c)

RECURSIVE AppendAllSkippingFailures(_, _, _, _)
AppendAllSkippingFailures(cls, combos, i, acc) ==
    IF Raised(acc.exc) \/ i > Len(combos) THEN acc
    ELSE LET r == Construct(cls, CallOf(cls, combos[i]))
         IN  AppendAllSkippingFailures(cls, combos, i + 1,
                [problems |-> IF Raised(r.exc) THEN acc.problems
                              ELSE Append(acc.problems, r.self),
                 log |-> acc.log \o r.log,
                 exc |-> NoExc])

\* One for loop: problems.append(cls(...)) for each combination, until a
\* constructor raises.
RECURSIVE AppendAll(_, _, _, _)
AppendAll(cls, combos, i, acc) ==
    IF Raised(acc.exc) \/ i > Len(combos) THEN acc
    ELSE LET r == Construct(cls, CallOf(cls, combos[i]))
         IN  AppendAll(cls, combos, i + 1,
                [problems |-> IF Raised(r.exc) THEN acc.problems
                              ELSE Append(acc.problems, r.self),
                 log |-> acc.log \o r.log,
                 exc |-> r.exc])

\* sorted(problems), on the indices of the problems: a stable insertion
\* sort that compares with __lt__ only, as list.sort does.
RECURSIVE InsertionPoint(_, _, _, _)
InsertionPoint(problems, s, x, k) ==
    IF k = 0 \/ ~__lt__(problems[x], problems[s[k]]).value THEN k
    ELSE InsertionPoint(problems, s, x, k - 1)

Insert(problems, s, x) ==
    LET k == InsertionPoint(problems, s, x, Len(s))
    IN  SubSeq(s, 1, k) \o <<x>> \o SubSeq(s, k + 1, Len(s))

InsertUnlessEqual(problems, s, x) ==
    IF \E k \in DOMAIN s : __eq__(problems[x], problems[s[k]]).value THEN s
    ELSE Insert(problems, s, x)

RECURSIVE sorted_set(_, _)
sorted_set(problems, n) ==
    IF n = 0 THEN <<>> ELSE InsertUnlessEqual(problems, sorted_set(problems, n - 1), n)

RECURSIVE sorted(_, _)
sorted(problems, n) ==
    IF n = 0 THEN <<>> ELSE Insert(problems, sorted(problems, n - 1), n)

problems_from_dataset(dataset, bodies) ==
    LET omega_range == IF dataset.omega.present THEN dataset.omega.data
                       ELSE <<default_parameters.omega>>
        water_depth_range == IF dataset.water_depth.present THEN dataset.water_depth.data
                             ELSE <<Inf>>
        selected == body_range(dataset, bodies)
        empty == [problems |-> <<>>, log |-> <<>>, exc |-> NoExc]
        diffraction ==
            IF dataset.angle.present
            THEN AppendAll("DiffractionProblem",
                           Product(omega_range, dataset.angle.data, water_depth_range, selected),
                           1, empty)
            ELSE empty
        all ==
            IF dataset.radiating_dof.present
            THEN AppendAll("RadiationProblem",
                           Product(omega_range, dataset.radiating_dof.data,
                                   water_depth_range, selected),
                           1, diffraction)
            ELSE diffraction
    IN  IF Cardinality({bodies[i].name : i \in DOMAIN bodies}) # Len(bodies)
        THEN [problems |-> <<>>, log |-> <<>>, value |-> <<>>,
              exc |-> Raise("AssertionError", "All bodies should have different names.", <<>>)]
        ELSE IF /\ dataset.body_name.present
                /\ ~(Range(dataset.body_name.data) \subseteq {bodies[i].name : i \in DOMAIN bodies})
        THEN [problems |-> <<>>, log |-> <<>>, value |-> <<>>,
              exc |-> Raise("AssertionError", "", <<>>)]
        ELSE IF Raised(all.exc)
        THEN [problems |-> <<>>, log |-> all.log, value |-> <<>>, exc |-> all.exc]
        ELSE [problems |-> all.problems, log |-> all.log,
              value |-> sorted(all.problems, Len(all.problems)), exc |-> NoExc]

\* A call by a caller that holds no problem and no result yet.  The
\* objects of the list are the heap from then on, in the order of their
\* construction; the value is the returned list, each problem named by its
\* index.
ProblemsFromDataset(dataset, bodies) ==
    /\ outcome.op \in {"start", "del", "except"}
    /\ heap = <<>>
    /\ \E r \in {problems_from_dataset(dataset, bodies)} :
           /\ heap' = r.problems
           /\ log' = r.log
           /\ outcome' = Result("problems_from_dataset",
                                [dataset |-> dataset, bodies |-> bodies], r.exc, r.value)

(***************************************************************************)
(* Spec: one problem object from its construction to the end of its scope. *)
(***************************************************************************)
Bodies == {NoBody, barge, buoy, wreck}

FreeSurfaces == {Fin(0), Inf, Fin(5)}

SeaBottoms == {NegInf, Fin(-5), Fin(7)}

Omegas == {1, 2, 3}

Gravities == {100, 981}

Densities == {1000}

DofNames == {None, "Heave", "Surge", "Pitch"}

BaseArgs ==
    [body : Bodies, free_surface : FreeSurfaces, sea_bottom : SeaBottoms,
     omega : Omegas, g : Gravities, rho : Densities]

DiffractionArgs ==
    [body : Bodies, free_surface : FreeSurfaces, sea_bottom : SeaBottoms,
     omega : Omegas, g : Gravities, rho : Densities,
     angle : {0}, convention : {"Nemoh"}]

RadiationArgs ==
    [body : Bodies, free_surface : FreeSurfaces, sea_bottom : SeaBottoms,
     omega : Omegas, g : Gravities, rho : Densities,
     radiating_dof : DofNames]

Start == [op |-> "start", args |-> <<>>, exc |-> NoExc, value |-> 0]

Init ==
    /\ heap = <<>>
    /\ log = <<>>
    /\ outcome = Start

Next ==
    \/ \E a \in BaseArgs : NewLinearPotentialFlowProblem(a, 1)
    \/ \E a \in DiffractionArgs : NewDiffractionProblem(a, 1)
    \/ \E a \in RadiationArgs : NewRadiationProblem(a, 1)
    \/ Except
    \/ Discard
    \/ \E i \in DOMAIN heap : GetDepth(i)
    \/ \E i \in DOMAIN heap : GetWavenumber(i)
    \/ \E i \in DOMAIN heap : GetWavelength(i)
    \/ \E i \in DOMAIN heap : GetPeriod(i)
    \/ \E i \in DOMAIN heap : GetDimensionlessOmega(i)
    \/ \E i \in DOMAIN heap : GetDimensionlessWavenumber(i)
    \/ \E i \in DOMAIN heap : Str(i)

Spec == Init /\ [][Next]_vars


(***************************************************************************)
(* SpecBatch: the calls of problems_from_dataset.                          *)
(***************************************************************************)
MaxAxis == 2

Absent == [present |-> FALSE, data |-> <<>>]

Coordinate(data) == [present |-> TRUE, data |-> data]

\* Every sequence of at most MaxAxis items of S.
SeqsUpTo(S) == UNION {[1..n -> S] : n \in 0..MaxAxis}

OmegaCoordinates == {Absent} \cup {Coordinate(d) : d \in SeqsUpTo({1, 2})}

AngleCoordinates == {Absent, Coordinate(<<0>>)}

DofCoordinates ==
    {Absent, Coordinate(<<"Heave">>), Coordinate(<<"Surge", "Heave">>), Coordinate(<<"Pitch">>)}

DepthCoordinates ==
    {Absent, Coordinate(<<Fin(10), Inf>>), Coordinate(<<Inf, Fin(-1)>>)}

BodyNameCoordinates ==
    {Absent, Coordinate(<<"buoy">>), Coordinate(<<"ghost", "barge">>)}

Datasets ==
    [omega : OmegaCoordinates, angle : AngleCoordinates, radiating_dof : DofCoordinates,
     water_depth : DepthCoordinates, body_name : BodyNameCoordinates]

BodyLists == {<<barge>>, <<buoy, barge>>, <<barge, wreck>>, <<barge, pile>>}

NextBatch ==
    \/ \E dataset \in Datasets, bodies \in BodyLists : ProblemsFromDataset(dataset, bodies)
    \/ Except
    \/ Discard

SpecBatch == Init /\ [][NextBatch]_vars

(***************************************************************************)
(* SpecUse: a caller that keeps up to MaxHeap problems it constructed, or  *)
(* the problems of one call of problems_from_dataset, and reads, renders   *)
(* and compares them.                                                      *)
(***************************************************************************)
MaxHeap == 2

Reference ==
    [body |-> barge, free_surface |-> Fin(0), sea_bottom |-> NegInf,
     omega |-> 1, g |-> 981, rho |-> 1000]

\* The reference arguments and arguments that differ from them in one or
\* two of the six fields.
UseBaseArgs ==
    { Reference,
      [Reference EXCEPT !.free_surface = Inf],
      [Reference EXCEPT !.g = 100],
      [Reference EXCEPT !.g = 100, !.rho = 1025] }

UseDiffractionArgs ==
    { a @@ [angle |-> 0, convention |-> "Nemoh"] :
        a \in { Reference,
                [Reference EXCEPT !.body = buoy],
                [Reference EXCEPT !.omega = 2],
                [Reference EXCEPT !.body = buoy, !.omega = 2] } }

UseRadiationArgs ==
    { [Reference EXCEPT !.sea_bottom = Fin(-5)] @@ [radiating_dof |-> "Heave"],
      [Reference EXCEPT !.rho = 1025] @@ [radiating_dof |-> "Surge"],
      [Reference EXCEPT !.sea_bottom = Fin(-5), !.omega = 2] @@ [radiating_dof |-> "Surge"],
      Reference @@ [radiating_dof |-> "Heave"],
      Reference @@ [radiating_dof |-> "Surge"] }

UseDatasets ==
    { [omega |-> Coordinate(<<2, 1>>), angle |-> Coordinate(<<0>>),
       radiating_dof |-> Coordinate(<<"Heave">>), water_depth |-> Absent,
       body_name |-> Absent],
      [omega |-> Absent, angle |-> Absent,
       radiating_dof |-> Coordinate(<<"Surge", "Heave">>),
       water_depth |-> Coordinate(<<Fin(10), Inf>>), body_name |-> Coordinate(<<"barge">>)] }

\* Values that are no problems.
OtherValues == {[cls |-> "int", value |-> 5], [cls |-> "str", value |-> 0]}

NextUse ==
    \/ \E a \in UseBaseArgs : NewLinearPotentialFlowProblem(a, MaxHeap)
    \/ \E a \in UseDiffractionArgs : NewDiffractionProblem(a, MaxHeap)
    \/ \E a \in UseRadiationArgs : NewRadiationProblem(a, MaxHeap)
    \/ \E dataset \in UseDatasets : ProblemsFromDataset(dataset, <<buoy, barge>>)
    \/ Except
    \/ Discard
    \/ \E i \in DOMAIN heap : GetDepth(i)
    \/ \E i \in DOMAIN heap : GetWavenumber(i)
    \/ \E i \in DOMAIN heap : GetWavelength(i)
    \/ \E i \in DOMAIN heap : GetPeriod(i)
    \/ \E i \in DOMAIN heap : GetDimensionlessOmega(i)
    \/ \E i \in DOMAIN heap : GetDimensionlessWavenumber(i)
    \/ \E i \in DOMAIN heap : Str(i)
    \/ \E i \in DOMAIN heap, j \in DOMAIN heap : Eq(i, j)
    \/ \E i \in DOMAIN heap, other \in OtherValues : EqOther(i, other)
    \/ \E i \in DOMAIN heap, j \in DOMAIN heap : Lt(i, j)

SpecUse == Init /\ [][NextUse]_vars

(***************************************************************************)
(* Properties of construction and of the wavenumber, checked under Spec    *)
(***************************************************************************)
Constructed == outcome.op = "__init__"

MsgFreeSurface ==
    "Only z=0 and z=inf are accepted values for the free surface position at the moment."

MsgNoFreeSurface ==
    "The case without free surface but with a sea bottom has not been implemented yet."

MsgDepth == "Sea bottom is above the free surface."

MsgNoDof == "Body does not have any degrees of freedom."

MsgUnknownDof == "Unrecognized degree of freedom name."

\* The three rules on the arguments a of a constructor call.
Rule1(a) == a.free_surface # Fin(0) /\ a.free_surface # Inf

Rule2(a) == a.free_surface = Inf /\ a.sea_bottom # NegInf

Rule3(a) ==
    \/ a.sea_bottom[1] > a.free_surface[1]
    \/ a.sea_bottom[1] = 0 /\ a.free_surface[1] = 0 /\ a.sea_bottom[2] > a.free_surface[2]

PassedChecks == outcome.exc.msg \notin {MsgFreeSurface, MsgNoFreeSurface, MsgDepth}

\* Some face center of the body of a lies above the free surface or below
\* the sea bottom.
OutOfDomain(a) ==
    /\ a.body.id # 0
    /\ \E i \in DOMAIN a.body.mesh.faces_centers :
         LET z == a.body.mesh.faces_centers[i]
         IN  \/ a.free_surface[1] < 0
             \/ a.free_surface[1] = 0 /\ z > a.free_surface[2]
             \/ a.sea_bottom[1] > 0
             \/ a.sea_bottom[1] = 0 /\ z < a.sea_bottom[2]

Warnings == {i \in DOMAIN log : log[i].level = "warning"}

Errors == {i \in DOMAIN log : log[i].level = "error"}

\* C4: a constructor call fails with the error of the first violated rule,
\* in the order (1) free_surface neither 0 nor +inf: NotImplementedError,
\* (2) free_surface +inf with a sea_bottom other than -inf:
\* NotImplementedError, (3) sea_bottom above free_surface: ValueError; it
\* passes these checks exactly when no rule is violated; every live problem
\* has free_surface in {0, +inf}, sea_bottom <= free_surface and a depth
\* >= 0; a DiffractionProblem with free_surface = 5 always fails with
\* NotImplementedError.
C4_FirstViolatedRule ==
    /\ Constructed =>
         LET a == outcome.args.a
         IN  /\ Rule1(a) =>
                  outcome.exc.type = "NotImplementedError" /\ outcome.exc.msg = MsgFreeSurface
             /\ ~Rule1(a) /\ Rule2(a) =>
                  outcome.exc.type = "NotImplementedError" /\ outcome.exc.msg = MsgNoFreeSurface
             /\ ~Rule1(a) /\ ~Rule2(a) /\ Rule3(a) =>
                  outcome.exc.type = "ValueError" /\ outcome.exc.msg = MsgDepth
             /\ PassedChecks <=> ~Rule1(a) /\ ~Rule2(a) /\ ~Rule3(a)
             /\ outcome.args.cls = "DiffractionProblem" /\ a.free_surface = Fin(5) =>
                  outcome.exc.type = "NotImplementedError"
    /\ \A i \in DOMAIN heap :
         /\ heap[i].free_surface \in {Fin(0), Inf}
         /\ \/ heap[i].sea_bottom[1] < heap[i].free_surface[1]
            \/ /\ heap[i].sea_bottom[1] = 0
               /\ heap[i].free_surface[1] = 0
               /\ heap[i].sea_bottom[2] <= heap[i].free_surface[2]
         /\ \/ depth(heap[i]) = Inf
            \/ depth(heap[i])[1] = 0 /\ depth(heap[i])[2] >= 0

\* Rules (1) and (3) are both violated and the error is that of rule (1).
C4_Witness ==
    /\ Constructed
    /\ Rule1(outcome.args.a)
    /\ Rule3(outcome.args.a)
    /\ outcome.exc.type = "NotImplementedError"

\* C6: a RadiationProblem of a body fails with "no degrees of freedom" when
\* the body declares none (a radiating_dof was given or not); otherwise an
\* unspecified radiating_dof becomes the first declared one; then a
\* radiating_dof that is not declared fails with "unrecognized degree of
\* freedom"; otherwise the problem exists, its radiating_dof is a declared
\* name and its boundary condition is derived from that dof.
C6_RadiatingDofResolution ==
    Constructed /\ outcome.args.cls = "RadiationProblem" /\ PassedChecks
      /\ outcome.args.a.body.id # 0 =>
        LET a == outcome.args.a
            dofs == a.body.dofs
            dof == IF a.radiating_dof = None THEN dofs[1] ELSE a.radiating_dof
        IN  IF Len(dofs) = 0
            THEN outcome.exc.type = "ValueError" /\ outcome.exc.msg = MsgNoDof
            ELSE IF \A k \in DOMAIN dofs : dofs[k] # dof
            THEN outcome.exc.type = "ValueError" /\ outcome.exc.msg = MsgUnknownDof
            ELSE /\ ~Raised(outcome.exc)
                 /\ heap[outcome.value].radiating_dof = dof
                 /\ \E k \in DOMAIN dofs : dofs[k] = heap[outcome.value].radiating_dof
                 /\ heap[outcome.value].boundary_condition.kind = "array"
                 /\ \A f \in DOMAIN heap[outcome.value].boundary_condition.array :
                      heap[outcome.value].boundary_condition.array[f].normal_component_of = dof

\* A radiating_dof left unspecified became the first declared dof of a body
\* whose first dof is not the alphabetically first one.
C6_Witness ==
    /\ Constructed
    /\ outcome.args.cls = "RadiationProblem"
    /\ outcome.args.a.body = barge
    /\ outcome.args.a.radiating_dof = None
    /\ ~Raised(outcome.exc)
    /\ heap[outcome.value].radiating_dof = "Surge"

UnknownDofCase ==
    /\ Constructed
    /\ outcome.args.cls = "RadiationProblem"
    /\ outcome.exc.msg = MsgUnknownDof

\* C7 as stated: the error handed to the caller of the constructor carries
\* the requested name and every valid name.
C7_ErrorCarriesValues ==
    UnknownDofCase =>
        /\ \E k \in DOMAIN outcome.exc.values :
             outcome.exc.values[k] = outcome.args.a.radiating_dof
        /\ \A d \in DOMAIN outcome.args.a.body.dofs :
             \E k \in DOMAIN outcome.exc.values :
               outcome.exc.values[k] = outcome.args.a.body.dofs[d]

\* C7: a radiating_dof that is not declared by the body is reported, with
\* the requested name and the full list of the valid names, in one
\* error-level log record emitted before the failure; the ValueError handed
\* to the caller carries the fixed message only.
C7_ValuesAreLogged ==
    UnknownDofCase =>
        /\ Cardinality(Errors) = 1
        /\ \A i \in Errors :
             /\ log[i].fields.radiating_dof = outcome.args.a.radiating_dof
             /\ log[i].fields.dofs = outcome.args.a.body.dofs
        /\ outcome.exc.type = "ValueError"
        /\ outcome.exc.values = <<>>

\* "Pitch" asked of the barge, whose dofs are Surge and Heave.
C7_Witness ==
    /\ UnknownDofCase
    /\ outcome.args.a.body = barge
    /\ outcome.args.a.radiating_dof = "Pitch"
    /\ \E i \in Errors : log[i].fields.dofs = <<"Surge", "Heave">>

\* C9: the wavenumber is the closed form omega^2/g exactly when the depth
\* is infinite or omega^2*depth/g > 20; for a finite depth with
\* omega^2*depth/g <= 20 (20 included) it is the root of
\* x*tanh(x) = omega^2*depth/g searched from x0 = 1, divided by the depth.
C9_Wavenumber ==
    outcome.op = "wavenumber" =>
        LET p == heap[outcome.args[1]]
            infinite == p.sea_bottom = NegInf \/ p.free_surface = Inf
            d == p.free_surface[2] - p.sea_bottom[2]
            over == p.omega * p.omega * d * 100 > 20 * p.g
            closed == [num |-> p.omega * p.omega * 100, den |-> p.g]
        IN  /\ outcome.value.form = "omega**2/g" <=> infinite \/ over
            /\ infinite => outcome.value.form = "omega**2/g" /\ outcome.value.value = closed
            /\ ~infinite /\ over => outcome.value.value = closed
            /\ ~infinite /\ ~over =>
                 /\ outcome.value.form = "newton"
                 /\ outcome.value.x0 = 1
                 /\ outcome.value.rhs = [num |-> p.omega * p.omega * d * 100, den |-> p.g]
                 /\ outcome.value.divided_by = Fin(d)

\* omega^2*depth/g is exactly 20 and the root is searched.
C9_Witness ==
    /\ outcome.op = "wavenumber"
    /\ heap[outcome.args[1]].sea_bottom[1] = 0
    /\ heap[outcome.args[1]].free_surface[1] = 0
    /\ heap[outcome.args[1]].omega * heap[outcome.args[1]].omega
         * (heap[outcome.args[1]].free_surface[2] - heap[outcome.args[1]].sea_bottom[2]) * 100
       = 20 * heap[outcome.args[1]].g
    /\ outcome.value.form = "newton"

\* C10 as stated: the body-in-domain check comes after the free_surface and
\* sea_bottom checks, so a construction that fails one of them emits no
\* mesh-out-of-domain diagnostic.
C10_NoWarningWhenCheckFails ==
    Constructed /\ ~PassedChecks => Warnings = {}

\* C10: the body-in-domain check is never fatal and is the first of the
\* construction-time checks: whenever a body is given with a face center
\* above free_surface or below sea_bottom, exactly one warning is emitted,
\* also when the free_surface or sea_bottom check then fails; in an
\* otherwise legal configuration the problem is constructed; no warning is
\* emitted for a body inside the domain or without a body.
C10_WarningComesFirst ==
    Constructed =>
        LET a == outcome.args.a
        IN  /\ OutOfDomain(a) => Cardinality(Warnings) = 1
            /\ ~OutOfDomain(a) => Warnings = {}
            /\ \A i \in Warnings : log[i].fields.body = a.body.name
            /\ OutOfDomain(a) /\ ~Rule1(a) /\ ~Rule2(a) /\ ~Rule3(a)
                 /\ outcome.args.cls # "RadiationProblem" =>
                   ~Raised(outcome.exc) /\ heap[outcome.value].body = a.body

\* A construction that the free_surface check fails has warned already.
C10_Witness ==
    /\ Constructed
    /\ outcome.exc.msg = MsgFreeSurface
    /\ Warnings # {}


(***************************************************************************)
(* Properties of problems_from_dataset, checked under SpecBatch            *)
(***************************************************************************)
BatchCalled == outcome.op = "problems_from_dataset"

BatchReturned == BatchCalled /\ ~Raised(outcome.exc)

\* The axes of the call, with the defaults of the omitted ones.
OmegaAxis ==
    IF outcome.args.dataset.omega.present THEN outcome.args.dataset.omega.data ELSE <<1>>

DepthAxis ==
    IF outcome.args.dataset.water_depth.present THEN outcome.args.dataset.water_depth.data
    ELSE <<Inf>>

AngleAxis == outcome.args.dataset.angle.data

DofAxis == outcome.args.dataset.radiating_dof.data

\* The positions, in bodies, of the selected bodies.
Selected ==
    {b \in DOMAIN outcome.args.bodies :
        \/ ~outcome.args.dataset.body_name.present
        \/ \E k \in DOMAIN outcome.args.dataset.body_name.data :
             outcome.args.dataset.body_name.data[k] = outcome.args.bodies[b].name}

\* The combinations of one family: positions in the four axes.
Combinations(axis) ==
    (DOMAIN OmegaAxis) \X (DOMAIN axis) \X (DOMAIN DepthAxis) \X Selected

\* The problems of the heap that a combination of the family describes.
Matching(cls, axis, c) ==
    {i \in DOMAIN heap :
        /\ heap[i].cls = cls
        /\ heap[i].omega = OmegaAxis[c[1]]
        /\ IF cls = "DiffractionProblem" THEN heap[i].angle = axis[c[2]]
           ELSE heap[i].radiating_dof = axis[c[2]]
        /\ heap[i].sea_bottom = <<-DepthAxis[c[3]][1], -DepthAxis[c[3]][2]>>
        /\ heap[i].body = outcome.args.bodies[c[4]]}

\* The combinations with the same values as c.
SameValues(axis, c) ==
    {e \in Combinations(axis) :
        /\ OmegaAxis[e[1]] = OmegaAxis[c[1]]
        /\ axis[e[2]] = axis[c[2]]
        /\ DepthAxis[e[3]] = DepthAxis[c[3]]
        /\ outcome.args.bodies[e[4]] = outcome.args.bodies[c[4]]}

OfClass(cls) == {i \in DOMAIN heap : heap[i].cls = cls}

\* C1: the list returned holds exactly one DiffractionProblem per
\* combination (omega, angle, water_depth, selected body) when there is an
\* 'angle' axis and exactly one RadiationProblem per combination (omega,
\* radiating_dof, water_depth, selected body) when there is a
\* 'radiating_dof' axis, and nothing else; an absent family gives no
\* problem; an omitted omega is [1], an omitted water_depth is [inf];
\* sea_bottom is -water_depth; equal problems are neither dropped nor merged.
C1_OnePerCombination ==
    BatchReturned =>
        /\ Len(outcome.value) = Len(heap)
        /\ {outcome.value[k] : k \in DOMAIN outcome.value} = DOMAIN heap
        /\ DOMAIN heap = OfClass("DiffractionProblem") \cup OfClass("RadiationProblem")
        /\ IF outcome.args.dataset.angle.present
           THEN /\ Cardinality(OfClass("DiffractionProblem"))
                     = Cardinality(Combinations(AngleAxis))
                /\ \A c \in Combinations(AngleAxis) :
                     Cardinality(Matching("DiffractionProblem", AngleAxis, c))
                       = Cardinality(SameValues(AngleAxis, c))
           ELSE OfClass("DiffractionProblem") = {}
        /\ IF outcome.args.dataset.radiating_dof.present
           THEN /\ Cardinality(OfClass("RadiationProblem"))
                     = Cardinality(Combinations(DofAxis))
                /\ \A c \in Combinations(DofAxis) :
                     Cardinality(Matching("RadiationProblem", DofAxis, c))
                       = Cardinality(SameValues(DofAxis, c))
           ELSE OfClass("RadiationProblem") = {}

\* Both families are returned, and two of the radiation problems compare
\* equal: they differ in their radiating_dof only.
C1_Witness ==
    /\ BatchReturned
    /\ OfClass("DiffractionProblem") # {}
    /\ \E i \in OfClass("RadiationProblem"), j \in OfClass("RadiationProblem") :
         /\ heap[i].radiating_dof # heap[j].radiating_dof
         /\ heap[i].body = heap[j].body
         /\ heap[i].sea_bottom = heap[j].sea_bottom
         /\ heap[i].omega = heap[j].omega
    /\ Len(outcome.value) = Len(heap)

\* The identity tuple of p is less than that of q, field by field.
ExtLess(x, y) == x[1] < y[1] \/ (x[1] = 0 /\ y[1] = 0 /\ x[2] < y[2])

IdentityLess(p, q) ==
    \/ NameRank(p.body.name) < NameRank(q.body.name)
    \/ /\ p.body = q.body
       /\ \/ ExtLess(p.free_surface, q.free_surface)
          \/ /\ p.free_surface = q.free_surface
             /\ \/ ExtLess(p.sea_bottom, q.sea_bottom)
                \/ /\ p.sea_bottom = q.sea_bottom
                   /\ \/ p.omega < q.omega
                      \/ /\ p.omega = q.omega
                         /\ \/ p.g < q.g
                            \/ p.g = q.g /\ p.rho < q.rho

\* C2: the list returned is sorted by the identity tuple (body,
\* free_surface, sea_bottom, omega, g, rho) compared lexicographically: no
\* problem's tuple is greater than the next one's, and the problems of one
\* body are contiguous.
C2_SortedByIdentity ==
    BatchReturned =>
        /\ \A k \in 1..(Len(outcome.value) - 1) :
             ~IdentityLess(heap[outcome.value[k + 1]], heap[outcome.value[k]])
        /\ \A i \in DOMAIN outcome.value, j \in DOMAIN outcome.value, k \in DOMAIN outcome.value :
             i < j /\ j < k /\ heap[outcome.value[i]].body = heap[outcome.value[k]].body
               => heap[outcome.value[j]].body = heap[outcome.value[i]].body

\* A list of two bodies, two sea bottoms and two frequencies whose order is
\* not the order of construction.
C2_Witness ==
    /\ BatchReturned
    /\ outcome.value # [k \in DOMAIN heap |-> k]
    /\ \E i \in DOMAIN heap, j \in DOMAIN heap : heap[i].body # heap[j].body
    /\ \E i \in DOMAIN heap, j \in DOMAIN heap :
         heap[i].body = heap[j].body /\ heap[i].sea_bottom # heap[j].sea_bottom
    /\ \E i \in DOMAIN heap, j \in DOMAIN heap :
         /\ heap[i].body = heap[j].body
         /\ heap[i].sea_bottom = heap[j].sea_bottom
         /\ heap[i].omega # heap[j].omega

DuplicateNames ==
    \E i \in DOMAIN outcome.args.bodies, j \in DOMAIN outcome.args.bodies :
        i # j /\ outcome.args.bodies[i].name = outcome.args.bodies[j].name

UnknownFilter ==
    /\ outcome.args.dataset.body_name.present
    /\ \E k \in DOMAIN outcome.args.dataset.body_name.data :
         \A b \in DOMAIN outcome.args.bodies :
           outcome.args.bodies[b].name # outcome.args.dataset.body_name.data[k]

Negative(d) == d[1] < 0 \/ (d[1] = 0 /\ d[2] < 0)

\* The construction of some combination of a requested family fails: its
\* water_depth is negative, or its body does not declare its radiating_dof.
FailingCombination ==
    \/ /\ outcome.args.dataset.angle.present
       /\ \E c \in Combinations(AngleAxis) : Negative(DepthAxis[c[3]])
    \/ /\ outcome.args.dataset.radiating_dof.present
       /\ \E c \in Combinations(DofAxis) :
            \/ Negative(DepthAxis[c[3]])
            \/ \A k \in DOMAIN outcome.args.bodies[c[4]].dofs :
                 outcome.args.bodies[c[4]].dofs[k] # DofAxis[c[2]]

\* C5: the call fails, and returns no list, when two bodies share a name,
\* when the body_name filter holds a name of no body, or when the
\* construction of any single combination fails; no list is returned from
\* which failing combinations were left out.
C5_AllOrNothing ==
    BatchCalled =>
        /\ DuplicateNames => outcome.exc.type = "AssertionError"
        /\ ~DuplicateNames /\ UnknownFilter => outcome.exc.type = "AssertionError"
        /\ ~DuplicateNames /\ ~UnknownFilter /\ FailingCombination =>
             outcome.exc.type = "ValueError"
        /\ Raised(outcome.exc) => outcome.value = <<>> /\ heap = <<>>

\* The buoy does not declare Surge while every combination of the barge
\* can be constructed: the call fails as a whole.
C5_Witness ==
    /\ BatchCalled
    /\ outcome.args.bodies = <<buoy, barge>>
    /\ ~outcome.args.dataset.body_name.present
    /\ outcome.args.dataset.radiating_dof.data = <<"Surge", "Heave">>
    /\ \A k \in DOMAIN DepthAxis : ~Negative(DepthAxis[k])
    /\ OmegaAxis # <<>>
    /\ outcome.exc.msg = MsgUnknownDof
    /\ outcome.value = <<>>
    /\ heap = <<>>

(***************************************************************************)
(* Properties of the comparisons and of the problems in use, checked       *)
(* under SpecUse                                                           *)
(***************************************************************************)
SameIdentity(p, q) ==
    /\ p.body.id = q.body.id
    /\ p.free_surface = q.free_surface
    /\ p.sea_bottom = q.sea_bottom
    /\ p.omega = q.omega
    /\ p.g = q.g
    /\ p.rho = q.rho

\* C3: two problems compare equal if and only if their identity tuples
\* (body, free_surface, sea_bottom, omega, g, rho) are equal, whatever
\* their classes, angle, convention or radiating_dof; the relation is
\* reflexive, symmetric and transitive; comparing a problem with a value
\* that is no problem returns NotImplemented and raises nothing.
C3_EqualityIsIdentityTuple ==
    /\ outcome.op = "__eq__" =>
         /\ outcome.value.implemented
         /\ outcome.value.value
              <=> SameIdentity(heap[outcome.args[1]], heap[outcome.args[2]])
    /\ outcome.op = "__eq__other" =>
         /\ ~outcome.value.implemented
         /\ ~Raised(outcome.exc)
    /\ \A i \in DOMAIN heap : __eq__(heap[i], heap[i]).value
    /\ \A i \in DOMAIN heap, j \in DOMAIN heap :
         __eq__(heap[i], heap[j]).value => __eq__(heap[j], heap[i]).value
    /\ \A i \in DOMAIN heap, j \in DOMAIN heap, k \in DOMAIN heap :
         __eq__(heap[i], heap[j]).value /\ __eq__(heap[j], heap[k]).value
           => __eq__(heap[i], heap[k]).value

\* Two radiation problems that differ in their radiating_dof only were
\* compared, and are equal.
C3_Witness ==
    /\ outcome.op = "__eq__"
    /\ heap[outcome.args[1]].cls = "RadiationProblem"
    /\ heap[outcome.args[2]].cls = "RadiationProblem"
    /\ heap[outcome.args[1]].radiating_dof # heap[outcome.args[2]].radiating_dof
    /\ outcome.value.value

ReadOnlyOps ==
    {"depth", "wavenumber", "wavelength", "period", "dimensionless_omega",
     "dimensionless_wavenumber", "__str__", "__eq__", "__eq__other", "__lt__"}

\* One entry per face of the mesh of the body of p.
OnePerFace(p) ==
    /\ p.boundary_condition.kind = "array"
    /\ Len(p.boundary_condition.array) = Len(p.body.mesh.faces_centers)
    /\ \A f \in DOMAIN p.boundary_condition.array : p.boundary_condition.array[f].face = f

\* C8 as stated: every problem with a body, of any class, has a boundary
\* condition with one entry per face from its construction on, and no read,
\* comparison, rendering or sort changes a problem.
C8_EveryProblemWithBody ==
    [][ /\ \A i \in DOMAIN heap' : heap'[i].body.id # 0 => OnePerFace(heap'[i])
        /\ outcome'.op \in ReadOnlyOps => heap' = heap
        /\ outcome'.op = "problems_from_dataset" =>
             \A k \in DOMAIN outcome'.value : outcome'.value[k] \in DOMAIN heap' ]_vars

=============================================================================
